---- MODULE Spec2Model ----
(***************************************************************************)
(* Model of scripts/txt2img_fork.py: the command-line driver that parses   *)
(* its options, loads the model, and for every iteration and prompt batch  *)
(* encodes the prompts, builds a noise schedule, calls a sampler and       *)
(* writes the images.  Tensors are abstracted to what the driver decides   *)
(* about them: batch sizes, the identity of a random draw, the schedule.   *)
(* Noise levels are exact rationals [num, den].                            *)
(***************************************************************************)
EXTENDS Integers, Sequences, FiniteSets, TLC

\* ---------------------------------------------------------------- bounds
MaxSteps == 2
MaxIter == 2
MaxSamples == 2
MaxLines == 3
MaxExisting == 1
MaxLevel == 4
MaxTableLen == 3

\* ------------------------------------------------------- program constants
KARRAS_SAMPLERS == {"heun", "euler", "dpm2"}
K_DIFF_SAMPLERS == KARRAS_SAMPLERS \cup {"k_lms", "dpm2_ancestral", "euler_ancestral"}
NOT_K_DIFF_SAMPLERS == {"ddim", "plms"}
VALID_SAMPLERS == K_DIFF_SAMPLERS \cup NOT_K_DIFF_SAMPLERS

\* rho=7. in the get_sigmas_karras call
rho == 7

\* width of f"{base_count:05}"
SampleNameWidth == 5

\* width of f"grid-{grid_count:04}"
GridNameWidth == 4

\* ------------------------------------------------------------- rationals
Rat(n, d) == [num |-> n, den |-> d]

RatLess(a, b) == a.num * b.den < b.num * a.den

RECURSIVE GCD(_, _)
GCD(a, b) == IF b = 0 THEN a ELSE GCD(b, a % b)

\* ---------------------------------------------- the model's noise table
\* model_k_wrapped.sigmas: ascending, fixed at load time.  The entries are
\* seventh powers so that sigma^(1/rho) is exact.
ModelSigmas == << Rat(1, 1), Rat(128, 1), Rat(2187, 1), Rat(16384, 1) >>

\* x ** (1 / rho) for a table entry
RhoRoot(x) == CHOOSE r \in 0..MaxLevel : r ^ rho = x.num

\* ------------------------------------------------------ schedule builders
\* the count with the "+1" forgotten
KarrasCountNoExtra(steps) == steps

\* n=opt.steps+1 : the count handed to get_sigmas_karras
KarrasCount(steps) == steps + 1

\* the library's default, a trailing zero
KarrasConcatZeroDefault == TRUE

\* concat_zero=False
KarrasConcatZero == FALSE

\* sigma_min=model_k_wrapped.sigmas[0]
KarrasSigmaMin(table) == table[1]

\* sigma_max=model_k_wrapped.sigmas[-1]
KarrasSigmaMax(table) == table[Len(table)]

\* get_sigmas_karras(n, sigma_min, sigma_max, rho, concat_zero):
\* level(i) = (max^(1/rho) + i/(n-1) * (min^(1/rho) - max^(1/rho))) ^ rho,
\* followed by a zero when concat_zero is set.
KarrasLevel(i, n, smin, smax) ==
    LET a == RhoRoot(smax)
        b == RhoRoot(smin)
        d == IF n > 1 THEN n - 1 ELSE 1
        r == a * d + i * (b - a)
        g == GCD(r, d)
    IN  Rat((r \div g) ^ rho, (d \div g) ^ rho)

get_sigmas_karras(n, smin, smax, concat_zero) ==
    LET ramp == [i \in 1..n |-> KarrasLevel(i - 1, n, smin, smax)]
    IN  IF concat_zero THEN Append(ramp, Rat(0, 1)) ELSE ramp

\* torch.bucketize(v, boundaries), right=False: the first index i (0-based)
\* with boundaries[i] >= v, found by binary search.
RECURSIVE LowerBound(_, _, _, _)
LowerBound(v, b, lo, hi) ==
    IF lo >= hi THEN lo
    ELSE LET mid == (lo + hi) \div 2
         IN  IF RatLess(b[mid + 1], v)
             THEN LowerBound(v, b, mid + 1, hi)
             ELSE LowerBound(v, b, lo, mid)

bucketize(v, b) == LowerBound(v, b, 0, Len(b))

\* torch.clamp(i, min=lo, max=hi)
clamp(i, lo, hi) == IF i < lo THEN lo ELSE IF i > hi THEN hi ELSE i

\* the upper limit one too high: max=len(model_k_wrapped.sigmas)
ClampedIndexOffByOne(v, table) == clamp(bucketize(v, table), 0, Len(table))

\* torch.clamp(sigma_indices, min=0, max=len(model_k_wrapped.sigmas)-1)
ClampedIndex(v, table) == clamp(bucketize(v, table), 0, Len(table) - 1)

\* what indexing a tensor out of range yields: no noise level at all
IndexError == Rat(-1, 1)

\* table[i] for a 0-based i: negative indices count from the end
TensorIndex(table, i) ==
    IF i >= 0 /\ i < Len(table) THEN table[i + 1]
    ELSE IF i < 0 /\ i >= -Len(table) THEN table[Len(table) + i + 1]
    ELSE IndexError

\* model_k_wrapped.sigmas[torch.clamp(sigma_indices, ...)], elementwise
QuantizeSigmas(sigmas, table) ==
    [i \in 1..Len(sigmas) |-> TensorIndex(table, ClampedIndex(sigmas[i], table))]

\* ------------------------------------------------------------ file names
RECURSIVE Digits(_)
Digits(n) == IF n < 10 THEN << n >> ELSE Append(Digits(n \div 10), n % 10)

\* format(n, "0<width>"): decimal digits, zero-padded on the left to width
ZeroPad(n, width) ==
    LET d == Digits(n)
    IN  IF Len(d) >= width THEN d
        ELSE [i \in 1..(width - Len(d)) |-> 0] \o d

SampleName(base) == ZeroPad(base, SampleNameWidth)

GridName(count) == ZeroPad(count, GridNameWidth)

\* ------------------------------------------------------------ prompt data
\* chunk(it, size): successive tuples of at most size items, until empty
RECURSIVE chunk(_, _)
chunk(it, size) ==
    IF Len(it) = 0 THEN << >>
    ELSE IF Len(it) <= size THEN << it >>
    ELSE << SubSeq(it, 1, size) >> \o chunk(SubSeq(it, size + 1, Len(it)), size)

\* lines 303-314: prompt id 0 is opt.prompt, ids 1.. are the file's lines
BuildData(o) ==
    IF ~o.from_file
    THEN << [i \in 1..o.n_samples |-> 0] >>
    ELSE chunk([i \in 1..o.lines |-> i], o.n_samples)

\* ------------------------------------------------------------ embeddings
NoneEmb == [none |-> TRUE, batch |-> 0]

Emb(b) == [none |-> FALSE, batch |-> b]

\* KCFGDenoiser.forward: x and sigma doubled, uncond and cond concatenated,
\* one inner-model call, split, uncond + (cond - uncond) * cond_scale.
\* eu, ec are the inner model's predictions for the two halves.
KCFGDenoiser(xB, uncond, cond, cond_scale, eu, ec) ==
    IF uncond.none
    THEN [err |-> "TypeError", out |-> 0]
    ELSE IF 2 * xB # uncond.batch + cond.batch
    THEN [err |-> "ShapeError", out |-> 0]
    ELSE [err |-> "", out |-> eu + (ec - eu) * cond_scale]

\* self.inner_model(x_in, sigma_in, cond=cond_in): the opaque predictor; its
\* prediction for the conditional half differs from the unconditional one.
inner_model(isCond) == IF isCond THEN 3 ELSE 1

\* ------------------------------------------------------------------ state
VARIABLES
    opt,          \* the parsed command line
    pc,           \* position of main()
    modelLoaded,  \* load_model_from_config has run
    rng,          \* number of torch.randn draws made so far
    data,         \* list of prompt batches
    start_code,   \* id of the draw kept as start_code, -1 for None
    n,            \* outer loop index
    bi,           \* index of the current prompt batch in data
    uc,           \* unconditional embedding of the current batch
    c,            \* conditional embedding of the current batch
    encodes,      \* number of get_learned_conditioning calls
    warnings,     \* number of [WARN] lines printed
    calls,        \* number of sampler calls started
    call,         \* the arguments and outcome of the latest sampler call
    generated,    \* number of samples returned by sampler calls
    base_count,   \* next sample file number
    grid_count,   \* next grid file number
    files,        \* sample file names written, in order
    grids,        \* grid file names written, in order
    all_samples,  \* number of batches appended to all_samples
    q             \* the quantizer's input and result (specification SpecQ)

vars == << opt, pc, modelLoaded, rng, data, start_code, n, bi, uc, c, encodes,
           warnings, calls, call, generated, base_count, grid_count, files,
           grids, all_samples, q >>

NoCall == [fn |-> "none", steps |-> 0, x0 |-> -1, xB |-> 0, cond |-> NoneEmb,
           uncond |-> NoneEmb, cond_scale |-> 0, sigmas |-> << >>,
           sigmasFrom |-> "none", sigmasLen |-> 0, karrasN |-> 0,
           karras |-> << >>, hasQuanta |-> FALSE, quanta |-> << >>,
           err |-> "", out |-> 0]

NoQ == [table |-> << >>, sigma |-> Rat(0, 1), raw |-> 0, idx |-> 0,
        val |-> Rat(0, 1), done |-> FALSE]

\* the sampler names a command line can carry: the valid ones and one other
SamplerNames == VALID_SAMPLERS \cup {"bogus"}

\* --scale values: 1.0 and one other
Scales == {1, 2}

Options ==
    [ sampler : SamplerNames,
      steps : 0..MaxSteps,
      karras : BOOLEAN,
      scale : Scales,
      fixed_code : BOOLEAN,
      n_iter : 1..MaxIter,
      n_samples : 1..MaxSamples,
      from_file : BOOLEAN,
      lines : 0..MaxLines,
      skip_save : BOOLEAN,
      skip_grid : BOOLEAN,
      existing : 0..MaxExisting ]

Init ==
    /\ opt \in { o \in Options : ~o.from_file => o.lines = 0 }
    /\ pc = "parse"
    /\ modelLoaded = FALSE
    /\ rng = 0
    /\ data = << >>
    /\ start_code = -1
    /\ n = 0
    /\ bi = 1
    /\ uc = NoneEmb
    /\ c = NoneEmb
    /\ encodes = 0
    /\ warnings = 0
    /\ calls = 0
    /\ call = NoCall
    /\ generated = 0
    /\ base_count = 0
    /\ grid_count = 0
    /\ files = << >>
    /\ grids = << >>
    /\ all_samples = 0
    /\ q = NoQ

\* lines 131-277: parser.parse_args() rejects a --sampler outside choices
ParseArgs ==
    /\ pc = "parse"
    /\ pc' = IF opt.sampler \in VALID_SAMPLERS THEN "load" ELSE "error"
    /\ UNCHANGED << opt, modelLoaded, rng, data, start_code, n, bi, uc, c,
                    encodes, warnings, calls, call, generated, base_count,
                    grid_count, files, grids, all_samples, q >>

\* lines 279-293: the model is loaded and wrapped, whatever opt.steps is
LoadModel ==
    /\ pc = "load"
    /\ modelLoaded' = TRUE
    /\ pc' = "setup"
    /\ UNCHANGED << opt, rng, data, start_code, n, bi, uc, c, encodes,
                    warnings, calls, call, generated, base_count, grid_count,
                    files, grids, all_samples, q >>

\* os.listdir(outpath) at start-up: the samples directory and the grids of
\* earlier invocations (the fewer samples are there, the more grids)
OutdirEntries(o) == 1 + (MaxExisting - o.existing)

\* grid_count = len(os.listdir(outpath)) - 1
InitialGridCount(o) == OutdirEntries(o) - 1

\* where the loop goes after the batch at index b of iteration i
NextPosition(i, b, o, d) ==
    IF b < Len(d) THEN [n |-> i, bi |-> b + 1, pc |-> "encode"]
    ELSE IF i + 1 < o.n_iter /\ Len(d) > 0 THEN [n |-> i + 1, bi |-> 1, pc |-> "encode"]
    ELSE [n |-> i, bi |-> b, pc |-> "grid"]

\* lines 295-335: prompt data, directory counts, the optional start_code
Setup ==
    /\ pc = "setup"
    /\ data' = BuildData(opt)
    /\ base_count' = opt.existing
    /\ grid_count' = InitialGridCount(opt)
    /\ IF opt.fixed_code
       THEN start_code' = rng /\ rng' = rng + 1
       ELSE start_code' = -1 /\ rng' = rng
    /\ n' = 0
    /\ bi' = 1
    /\ pc' = IF Len(data') > 0 THEN "encode" ELSE "grid"
    /\ UNCHANGED << opt, modelLoaded, uc, c, encodes, warnings, calls, call,
                    generated, files, grids, all_samples, q >>

\* lines 338-345: uc only when scale != 1.0, c from the batch's prompts
Encode ==
    /\ pc = "encode"
    /\ uc' = IF opt.scale # 1 THEN Emb(opt.n_samples) ELSE NoneEmb
    /\ c' = Emb(Len(data[bi]))
    /\ encodes' = encodes + (IF opt.scale # 1 THEN 2 ELSE 1)
    /\ pc' = "sample"
    /\ UNCHANGED << opt, modelLoaded, rng, data, start_code, n, bi, warnings,
                    calls, call, generated, base_count, grid_count, files,
                    grids, all_samples, q >>

\* DDIMSampler/PLMSSampler step: the conditional-only pass when uc is None or
\* the scale is 1.0, the doubled batch otherwise
LdmDenoise(xB, uncond, cond, cond_scale, eu, ec) ==
    IF uncond.none \/ cond_scale = 1
    THEN IF xB # cond.batch
         THEN [err |-> "ShapeError", out |-> 0]
         ELSE [err |-> "", out |-> ec]
    ELSE IF 2 * xB # uncond.batch + cond.batch
    THEN [err |-> "ShapeError", out |-> 0]
    ELSE [err |-> "", out |-> eu + cond_scale * (ec - eu)]

\* the test widened to every k-diffusion sampler
IsAnyKDiffSampler(o) == o.sampler \in K_DIFF_SAMPLERS

\* if opt.sampler in KARRAS_SAMPLERS
IsKarrasSampler(o) == o.sampler \in KARRAS_SAMPLERS

\* lines 375-402: the schedule handed to a k-diffusion sampler, the Karras
\* schedule it was derived from, and the keyword arguments
BuildSchedule(o, table) ==
    IF o.karras
    THEN LET sigmas == get_sigmas_karras(KarrasCount(o.steps),
                           KarrasSigmaMin(table), KarrasSigmaMax(table),
                           KarrasConcatZero)
         IN  IF IsKarrasSampler(o)
             THEN [sigmas |-> sigmas, sigmasFrom |-> "karras",
                   sigmasLen |-> Len(sigmas), karrasN |-> KarrasCount(o.steps),
                   karras |-> sigmas, hasQuanta |-> TRUE, quanta |-> table,
                   warn |-> 0]
             ELSE [sigmas |-> QuantizeSigmas(sigmas, table),
                   sigmasFrom |-> "quantized",
                   sigmasLen |-> Len(QuantizeSigmas(sigmas, table)),
                   karrasN |-> KarrasCount(o.steps),
                   karras |-> sigmas, hasQuanta |-> FALSE, quanta |-> << >>,
                   warn |-> 1]
    ELSE \* model_k_wrapped.get_sigmas(opt.steps): steps levels and a zero
         [sigmas |-> << >>, sigmasFrom |-> "get_sigmas",
          sigmasLen |-> o.steps + 1, karrasN |-> 0, karras |-> << >>,
          hasQuanta |-> FALSE, quanta |-> << >>, warn |-> 0]

\* line 356, x_T=start_code: the ldm samplers start from start_code and draw
\* their own noise only when it is None
LdmInitialNoise(sc, draw) == IF sc # -1 THEN sc ELSE draw

\* line 404, x = torch.randn(...) * sigmas[0]: the initial latent of a
\* k-diffusion run
KDiffInitialNoise(sc, draw) == draw

\* the results a sampler call can have.  With steps < 1 the libraries decide
\* (an empty loop, or an exception): either can happen.
SamplerOutcomes(o, den) ==
    IF o.steps < 1
    THEN {[err |-> "", out |-> 0], [err |-> "LibraryError", out |-> 0]}
    ELSE {den}

\* lines 347-415: one sampler call
Sample ==
    /\ pc = "sample"
    /\ LET kdiff == opt.sampler \in K_DIFF_SAMPLERS
           sch == IF kdiff THEN BuildSchedule(opt, ModelSigmas)
                  ELSE [sigmas |-> << >>, sigmasFrom |-> "none", sigmasLen |-> 0,
                        karrasN |-> 0, karras |-> << >>, hasQuanta |-> FALSE,
                        quanta |-> << >>, warn |-> 0]
           x0 == IF kdiff THEN KDiffInitialNoise(start_code, rng)
                 ELSE LdmInitialNoise(start_code, rng)
           xB == opt.n_samples
           den == IF kdiff
                  THEN KCFGDenoiser(xB, uc, c, opt.scale,
                                    inner_model(FALSE), inner_model(TRUE))
                  ELSE LdmDenoise(xB, uc, c, opt.scale,
                                  inner_model(FALSE), inner_model(TRUE))
       IN  \E res \in SamplerOutcomes(opt, den) :
             /\ call' = [fn |-> opt.sampler, steps |-> opt.steps, x0 |-> x0,
                         xB |-> xB, cond |-> c, uncond |-> uc,
                         cond_scale |-> opt.scale, sigmas |-> sch.sigmas,
                         sigmasFrom |-> sch.sigmasFrom,
                         sigmasLen |-> sch.sigmasLen, karrasN |-> sch.karrasN,
                         karras |-> sch.karras, hasQuanta |-> sch.hasQuanta,
                         quanta |-> sch.quanta, err |-> res.err,
                         out |-> res.out]
             /\ rng' = IF x0 = rng THEN rng + 1 ELSE rng
             /\ warnings' = warnings + sch.warn
             /\ calls' = calls + 1
             /\ generated' = IF res.err = "" THEN generated + xB ELSE generated
             /\ pc' = IF res.err = "" THEN "save" ELSE "error"
    /\ UNCHANGED << opt, modelLoaded, data, start_code, n, bi, uc, c, encodes,
                    base_count, grid_count, files, grids, all_samples, q >>

\* every sample of the batch saved under the batch's first name
BatchFileNamesNoIncrement(base, count) == [i \in 1..count |-> SampleName(base)]

\* lines 425-431: the names the batch's samples are saved under
BatchFileNames(base, count) == [i \in 1..count |-> SampleName(base + i - 1)]

\* lines 417-436: decode, save each sample, keep the batch for the grid, and
\* move to the next batch or iteration
Save ==
    /\ pc = "save"
    /\ IF ~opt.skip_save
       THEN /\ files' = files \o BatchFileNames(base_count, call.xB)
            /\ base_count' = base_count + call.xB
       ELSE UNCHANGED << files, base_count >>
    /\ all_samples' = IF ~opt.skip_grid THEN all_samples + 1 ELSE all_samples
    /\ LET nx == NextPosition(n, bi, opt, data)
       IN  n' = nx.n /\ bi' = nx.bi /\ pc' = nx.pc
    /\ UNCHANGED << opt, modelLoaded, rng, data, start_code, uc, c, encodes,
                    warnings, calls, call, generated, grid_count, grids, q >>

\* one grid for every kept batch
GridFilesPerBatch(count, kept) == [i \in 1..kept |-> GridName(count + i - 1)]

\* line 447: the grid files written once the iteration loop is over
GridFiles(count, kept) == << GridName(count) >>

\* lines 437-454: after the iteration loop, the grid of all kept batches;
\* torch.stack of an empty list raises
Grid ==
    /\ pc = "grid"
    /\ IF opt.skip_grid
       THEN pc' = "done" /\ UNCHANGED << grids, grid_count >>
       ELSE IF all_samples = 0
       THEN pc' = "error" /\ UNCHANGED << grids, grid_count >>
       ELSE /\ grids' = grids \o GridFiles(grid_count, all_samples)
            /\ grid_count' = grid_count + Len(GridFiles(grid_count, all_samples))
            /\ pc' = "done"
    /\ UNCHANGED << opt, modelLoaded, rng, data, start_code, n, bi, uc, c,
                    encodes, warnings, calls, call, generated, base_count,
                    files, all_samples, q >>

Next ==
    \/ ParseArgs
    \/ LoadModel
    \/ Setup
    \/ Encode
    \/ Sample
    \/ Save
    \/ Grid

Spec == Init /\ [][Next]_vars

\* ------------------------------------------------ the quantizer on its own
\* ascending level tables of up to MaxTableLen entries among 1..MaxLevel
Tables ==
    { [i \in 1..Len(t) |-> Rat(t[i], 1)] :
        t \in { u \in UNION { [1..k -> 1..MaxLevel] : k \in 1..MaxTableLen } :
                  \A i \in 1..(Len(u) - 1) : u[i] <= u[i + 1] } }

\* query sigmas in half steps from 0 to above the largest possible entry
Queries == { Rat(k, 2) : k \in 0..(2 * (MaxLevel + 1)) }

InitQ ==
    /\ opt \in { o \in Options : o.sampler = "k_lms" /\ o.steps = 0 /\ ~o.karras
                   /\ o.scale = 1 /\ ~o.fixed_code /\ o.n_iter = 1
                   /\ o.n_samples = 1 /\ ~o.from_file /\ o.lines = 0
                   /\ ~o.skip_save /\ ~o.skip_grid /\ o.existing = 0 }
    /\ pc = "quantize"
    /\ modelLoaded = FALSE
    /\ rng = 0
    /\ data = << >>
    /\ start_code = -1
    /\ n = 0
    /\ bi = 1
    /\ uc = NoneEmb
    /\ c = NoneEmb
    /\ encodes = 0
    /\ warnings = 0
    /\ calls = 0
    /\ call = NoCall
    /\ generated = 0
    /\ base_count = 0
    /\ grid_count = 0
    /\ files = << >>
    /\ grids = << >>
    /\ all_samples = 0
    /\ q \in { [NoQ EXCEPT !.table = t, !.sigma = v] : t \in Tables, v \in Queries }

\* lines 392-400 applied to one sigma and one table
Quantize ==
    /\ pc = "quantize"
    /\ ~q.done
    /\ q' = [q EXCEPT !.raw = bucketize(q.sigma, q.table),
                      !.idx = ClampedIndex(q.sigma, q.table),
                      !.val = QuantizeSigmas(<< q.sigma >>, q.table)[1],
                      !.done = TRUE]
    /\ UNCHANGED << opt, pc, modelLoaded, rng, data, start_code, n, bi, uc, c,
                    encodes, warnings, calls, call, generated, base_count,
                    grid_count, files, grids, all_samples >>

NextQ == Quantize

SpecQ == InitQ /\ [][NextQ]_vars

\* ---------------------------------------------------------------- claims
\* helpers of the claims' formulas
KDiffCall == call.fn \in {"heun", "euler", "dpm2", "k_lms", "dpm2_ancestral", "euler_ancestral"}

DiscretizingCall == call.fn \in {"heun", "euler", "dpm2"}

RatEq(a, b) == a.num * b.den = b.num * a.den

InTable(v, table) == \E k \in 1..Len(table) : RatEq(v, table[k])

RECURSIVE DigitsValue(_)
DigitsValue(d) ==
    IF Len(d) = 0 THEN 0
    ELSE 10 * DigitsValue(SubSeq(d, 1, Len(d) - 1)) + d[Len(d)]

\* the continuous Karras schedule of the run, from the table's two ends
RunKarras == get_sigmas_karras(opt.steps + 1, ModelSigmas[1],
                               ModelSigmas[Len(ModelSigmas)], FALSE)

\* C1: a k-diffusion sampler call gets the model's level table as quanta,
\* with the unquantized Karras schedule, exactly when --karras is set and
\* the sampler is heun, euler or dpm2; with --karras and another sampler it
\* gets no quanta and the quantized schedule; without --karras it gets no
\* quanta and the model's own schedule for opt.steps.
C1_QuantaIffKarrasSampler ==
    KDiffCall =>
      /\ (call.hasQuanta /\ call.quanta = ModelSigmas
            /\ call.sigmasFrom = "karras" /\ call.sigmas = RunKarras)
         <=> (opt.karras /\ DiscretizingCall)
      /\ (opt.karras /\ ~DiscretizingCall) =>
            /\ ~call.hasQuanta
            /\ call.sigmasFrom = "quantized"
            /\ call.sigmas = QuantizeSigmas(RunKarras, ModelSigmas)
            /\ \A i \in 1..Len(call.sigmas) : InTable(call.sigmas[i], ModelSigmas)
      /\ ~opt.karras =>
            /\ ~call.hasQuanta
            /\ call.sigmasFrom = "get_sigmas"
            /\ call.steps = opt.steps
            /\ call.sigmasLen = opt.steps + 1

C1_Witness ==
    /\ call.fn = "heun" /\ opt.karras /\ call.hasQuanta
    /\ call.steps = MaxSteps /\ call.err = ""

\* C2: for every sigma, inside or outside the table's range, the clamped
\* insertion index is within [0, length-1], the substituted value is an
\* entry of the table, and it lies within the table's range.
C2_QuantizedInTable ==
    q.done =>
      /\ q.idx >= 0 /\ q.idx <= Len(q.table) - 1
      /\ InTable(q.val, q.table)
      /\ ~RatLess(q.val, q.table[1])
      /\ ~RatLess(q.table[Len(q.table)], q.val)

C2_Witness ==
    /\ q.done
    /\ RatLess(q.table[Len(q.table)], q.sigma)
    /\ q.raw = Len(q.table)
    /\ Len(q.table) = MaxTableLen

\* C3 as stated: with --karras and a k-diffusion sampler other than heun,
\* euler, dpm2, the warning is printed exactly once in the whole invocation
\* and the schedule handed over has steps+1 entries.  Stated for runs with a
\* step count of at least 1, which is enough to refute it.
C3_WarnedOncePerInvocation ==
    (opt.karras /\ KDiffCall /\ ~DiscretizingCall /\ opt.steps >= 1) =>
      /\ warnings = 1
      /\ call.sigmasLen = opt.steps + 1

\* C3 amended: in that configuration the warning is printed once for every
\* sampler call (every prompt batch of every iteration), so an invocation
\* that finishes has printed n_iter * (number of batches) warnings; each
\* schedule handed over has steps+1 entries.
C3_WarnedOncePerSamplerCall ==
    (opt.karras /\ KDiffCall /\ ~DiscretizingCall) =>
      /\ warnings = calls
      /\ Len(call.sigmas) = opt.steps + 1
      /\ call.sigmasLen = opt.steps + 1
      /\ pc = "done" => warnings = opt.n_iter * Len(data)

C3_Witness ==
    /\ pc = "done" /\ opt.karras /\ call.fn = "k_lms"
    /\ opt.steps >= 1 /\ opt.n_iter >= 2 /\ Len(data) >= 2
    /\ warnings = opt.n_iter * Len(data)

\* C4: at guidance scale 1.0 a k-diffusion sampling run completes and the
\* denoiser returns the conditional prediction, with no unconditional
\* embedding computed.  Stated for runs with a step count of at least 1
\* whose prompt batch has the size of the latent batch.
C4_ScaleOneIsConditionalOnly ==
    (KDiffCall /\ call.cond_scale = 1 /\ call.steps >= 1
        /\ call.cond.batch = call.xB) =>
      /\ call.uncond.none
      /\ call.err = ""
      /\ call.out = inner_model(TRUE)

\* C5: with an invalid sampler name or a step count below 1 the program
\* stops in an error before the model is loaded, before any conditioning is
\* encoded, before any sampler call, and writes nothing.
C5_ConfigErrorsFailFast ==
    (opt.sampler \notin VALID_SAMPLERS \/ opt.steps < 1) =>
      /\ pc \in {"parse", "error"}
      /\ ~modelLoaded
      /\ encodes = 0
      /\ calls = 0
      /\ files = << >>
      /\ grids = << >>

\* C6: with --fixed_code every sampler call, whatever the sampler, starts
\* from the start_code drawn before the loop.  Stated for runs with a step
\* count of at least 1.
C6_FixedCodeReused ==
    (opt.fixed_code /\ call.fn # "none" /\ opt.steps >= 1) =>
      /\ start_code # -1
      /\ call.x0 = start_code

\* C7: for steps >= 1 the Karras schedule of a run is asked for with
\* n = steps+1, has n entries, is strictly decreasing, starts at the table's
\* largest entry, ends at its smallest, and has no trailing zero.
C7_KarrasScheduleShape ==
    (KDiffCall /\ opt.karras /\ opt.steps >= 1) =>
      /\ call.karrasN = opt.steps + 1
      /\ Len(call.karras) = call.karrasN
      /\ \A i \in 1..(Len(call.karras) - 1) :
            RatLess(call.karras[i + 1], call.karras[i])
      /\ RatEq(call.karras[1], ModelSigmas[Len(ModelSigmas)])
      /\ \A k \in 1..Len(ModelSigmas) : ~RatLess(call.karras[1], ModelSigmas[k])
      /\ RatEq(call.karras[Len(call.karras)], ModelSigmas[1])
      /\ \A k \in 1..Len(ModelSigmas) :
            ~RatLess(ModelSigmas[k], call.karras[Len(call.karras)])
      /\ call.karras[Len(call.karras)].num # 0

C7_Witness ==
    /\ KDiffCall /\ opt.karras /\ opt.steps = MaxSteps
    /\ Len(call.karras) = MaxSteps + 1
    /\ call.karras[2].den > 1

\* C8: unless --skip_save, every sample a sampler call returned is written
\* to one file once its batch is saved; the file numbers are consecutive
\* from the number of entries found in the samples directory; no two
\* samples share a file name.
C8_OneFilePerSample ==
    ~opt.skip_save =>
      /\ pc # "save" => Len(files) = generated
      /\ \A i \in 1..Len(files) :
            /\ DigitsValue(files[i]) = opt.existing + i - 1
            /\ Len(files[i]) >= 5
      /\ \A i, j \in 1..Len(files) : i # j => files[i] # files[j]
      /\ calls > 0 => base_count = opt.existing + Len(files)

C8_Witness ==
    /\ pc = "done" /\ ~opt.skip_save /\ opt.existing = MaxExisting
    /\ opt.n_iter >= 2 /\ Len(data) >= 2 /\ opt.n_samples >= 2
    /\ Len(files) = opt.n_iter * Len(data) * opt.n_samples
    /\ generated = Len(files)

\* C9 as stated: unless --skip_grid, a finished invocation has written one
\* grid per data batch processed, each under its own name.  Stated for runs
\* with a step count of at least 1.
C9_OneGridPerBatch ==
    (~opt.skip_grid /\ pc = "done" /\ opt.steps >= 1) =>
      /\ Len(grids) = all_samples
      /\ \A i, j \in 1..Len(grids) : i # j => grids[i] # grids[j]

\* C9 amended: unless --skip_grid, exactly one grid file is written per
\* invocation, after the last iteration, however many batches and
\* iterations there were: none before the loop is over, one when the
\* invocation is done, named by the grid count found at start-up.
C9_OneGridPerInvocation ==
    /\ opt.skip_grid => Len(grids) = 0
    /\ ~opt.skip_grid =>
         /\ pc # "done" => Len(grids) = 0
         /\ pc = "done" =>
              /\ Len(grids) = 1
              /\ DigitsValue(grids[1]) = MaxExisting - opt.existing
              /\ all_samples = opt.n_iter * Len(data)

C9_Witness ==
    /\ pc = "done" /\ ~opt.skip_grid /\ Len(grids) = 1
    /\ opt.n_iter >= 2 /\ Len(data) >= 2
    /\ all_samples = opt.n_iter * Len(data)

\* C10: in every sampler call the conditional embedding, the unconditional
\* embedding and the initial latent have the same batch size, also for the
\* last chunk of a prompt file.  Stated for runs with a step count of at
\* least 1.
C10_BatchSizesAgree ==
    (call.fn # "none" /\ opt.steps >= 1) =>
      /\ call.cond.batch = call.xB
      /\ ~call.uncond.none => call.uncond.batch = call.xB

====
